---- MODULE Spec2Model ----
(***************************************************************************)
(* A model of steam_download_monitor.py: the line classifier and state     *)
(* updater (parse_line), the active-subject selection (pick_active), the   *)
(* status report and the log tailer of watch_log, and the shutdown in      *)
(* main.                                                                   *)
(*                                                                         *)
(* Status labels are written in English; the source's labels are the       *)
(* string literals of nice_status (lines 109-125) and parse_line:          *)
(*   Paused = line 112, Downloading = 114, Staging = 116, Committing =     *)
(*   118, Verifying = 120, Preparing = 122, Allocating = 124, Idle = 125,  *)
(*   Done = 186.                                                           *)
(***************************************************************************)
EXTENDS Integers, Sequences, FiniteSets, TLC

VARIABLES
    st,         \* the State object (lines 96-106), as a record
    now,        \* the host clock, time.time(), in seconds
    last_out,   \* watch_log's local last_out (line 253)
    out,        \* the status line printed last (lines 286-303), or NoOut
    last,       \* history: the line handed to parse_line last, or NoLine
    prev,       \* history: st as it was before that line was applied
    lastMetric, \* history: the metric line applied last, or NoLine
    nev,        \* history: how many lines parse_line has been handed
    replay,     \* the replay experiment: a line sequence applied twice
    file,       \* the log file: its lines, each with its length in bytes
    f,          \* watch_log's f: "none" (None), "open" or "closed"
    nrot,       \* how many times the file was truncated
    telling,    \* whether f.tell() works: next(f) turns it off till its end
    fpos,       \* the position of the file object f, as f.tell() gives it
    fd,         \* the offset in the file at which f reads next
    snap,       \* the bytes of f's last read, which f.tell() counts back from
    buf,        \* the bytes f has read from the file and not yet returned
    pos,        \* watch_log's pos
    wpc,        \* where the watcher thread is in watch_log
    ret,        \* where reopen_tail was called: "init" (248) or "loop" (265)
    pending,    \* the assignments parse_line has still to make
    after,      \* where the watcher goes on when parse_line returns
    committed,  \* history: the State with every line handed over applied whole
    stop_ev,    \* main's stop_ev
    mpc,        \* where the main thread is in main
    shrunk,     \* history: the file fell below pos and was not reopened since
    staleRead,  \* history: line 270 read from f while shrunk
    size,       \* the size os.path.getsize returned last (lines 235, 258)
    torn,       \* the bytes of the file's last line the writer has yet to write
    diag,       \* how many times line 250 printed its message
    hist,       \* history: the lines handed to parse_line, in order
    held,       \* history: the subject canceled while active, untouched since
    libs,       \* the subjects whose manifest yields a name (libs, line 222)
    twin        \* a second tracker, fed another history by the same clock

tailvars ==
    <<file, nrot, telling, f, fpos, fd, snap, buf, pos, wpc, ret, pending,
      after,
      committed, stop_ev, mpc, shrunk, staleRead, size, torn, diag>>

trackvars == <<hist, held, libs, twin>>

vars ==
    <<st, now, last_out, out, last, prev, lastMetric, nev, replay, tailvars,
      trackvars>>

\* ------------------------------------------------------------------ bounds

MaxEvents == 3
MaxNow == 1302
MaxLen == 3
MaxFile == 2
MaxRotations == 1
TailTicks == 1

\* ------------------------------------------------------- program constants

stale_sec == 300
every_sec == 60
WINDOW_BYTES == 200000

None == "None"
Apps == {"10", "20"}

\* ---------------------------------------------------------- nice_status

\* str.lower() on the words a raw status text is made of.
Lower(w) ==
    CASE w = "Downloading" -> "downloading"
      [] w = "DOWNLOADING" -> "downloading"
      [] w = "Suspended" -> "suspended"
      [] w = "Staging" -> "staging"
      [] w = "Committing" -> "committing"
      [] w = "Verifying" -> "verifying"
      [] w = "Reconfiguring" -> "reconfiguring"
      [] w = "Preallocating" -> "preallocating"
      [] w = "None" -> "none"
      [] w = "NONE" -> "none"
      [] w = "Running" -> "running"
      [] OTHER -> w

\* `k in raw.lower()`: a raw status text is the sequence of its words.
Contains(raw, k) == \E i \in 1..Len(raw) : Lower(raw[i]) = k

nice_status(raw) ==
    IF Contains(raw, "suspended") THEN "Paused"
    ELSE IF Contains(raw, "downloading") THEN "Downloading"
    ELSE IF Contains(raw, "staging") THEN "Staging"
    ELSE IF Contains(raw, "committing") THEN "Committing"
    ELSE IF Contains(raw, "verifying") THEN "Verifying"
    ELSE IF Contains(raw, "reconfiguring") THEN "Preparing"
    ELSE IF Contains(raw, "preallocating") THEN "Allocating"
    ELSE "Idle"

\* The keyword list of line 157.
ActiveKeywords ==
    {"downloading", "staging", "committing", "verifying", "preallocating",
     "reconfiguring"}

\* A keyword test that takes "none" for a keyword too.
HasActiveKeyword_WithNone(raw) ==
    \E k \in ActiveKeywords \cup {"none"} : Contains(raw, k)

HasActiveKeyword(raw) == \E k \in ActiveKeywords : Contains(raw, k)

\* raw.strip().lower() == "none" (line 161).
IsNone(raw) == Len(raw) = 1 /\ Lower(raw[1]) = "none"

\* ------------------------------------------------------------- the lines

\* A log line is what the regular expressions of lines 11-25 see of it: the
\* set m of the patterns that match it and their captured groups.
Line(m, appid, raw, ts, num) ==
    [m |-> m, appid |-> appid, raw |-> raw, ts |-> ts, num |-> num]

NoLine == Line({}, None, <<>>, "", "")

LChanged(a, raw) == Line({"upd_changed"}, a, raw, "", "")
LStarted(a) == Line({"upd_started"}, a, <<>>, "", "")
LCanceled(a) == Line({"upd_canceled"}, a, <<>>, "", "")
LFinished(a) == Line({"finished"}, a, <<>>, "", "")
LState(a, raw) == Line({"state_changed"}, a, raw, "", "")
LRate(ts, num) == Line({"rate"}, None, <<>>, ts, num)
LInc(ts, num) == Line({"inc"}, None, <<>>, ts, num)
LStats(ts, num) == Line({"stats"}, None, <<>>, ts, num)
\* A line both upd_changed_re and state_changed_re match.
LBoth(a, raw) == Line({"upd_changed", "state_changed"}, a, raw, "", "")
LOther == Line({}, None, <<>>, "", "text")

\* The order in which parse_line tries the patterns (lines 149-216).
RuleOrder ==
    <<"upd_changed", "upd_started", "upd_canceled", "finished",
      "state_changed", "rate", "inc", "stats">>

\* The first pattern of RuleOrder that matches, or None.
Classify(line) ==
    IF \E i \in 1..Len(RuleOrder) : RuleOrder[i] \in line.m
    THEN RuleOrder[CHOOSE i \in 1..Len(RuleOrder) :
                       /\ RuleOrder[i] \in line.m
                       /\ \A j \in 1..(i - 1) : RuleOrder[j] \notin line.m]
    ELSE None

MetricRules == {"rate", "inc", "stats"}

\* float() of a captured [0-9.]+ text, in thousandths; the pattern also
\* admits texts float() rejects with ValueError.
FloatRaises(num) == num \in {"1.2.3", "."}

float(num) ==
    CASE num = "12.5" -> 12500
      [] num = "12.50" -> 12500
      [] num = "7" -> 7000
      [] num = "0" -> 0
      [] OTHER -> 0

\* parse_line raises on this line (lines 208, 213, 218).
ParseRaises(line) == Classify(line) \in MetricRules /\ FloatRaises(line.num)

\* ------------------------------------------------------------- the State

\* State.__init__ (lines 97-106). speed is <<>> for None and <<v>> for the
\* float v; seen keeps the insertion order of the dict, as <<appid, time>>.
InitState ==
    [active_app |-> None, active_status |-> "",
     app_status |-> << >>, seen |-> << >>,
     speed |-> << >>, speed_wall_ts |-> 0, speed_log_ts |-> "",
     speed_src |-> ""]

\* dict[k] = v on an insertion-ordered dict held as a sequence of pairs.
DictSet(d, k, v) ==
    IF \E i \in 1..Len(d) : d[i][1] = k
    THEN [i \in 1..Len(d) |-> IF d[i][1] = k THEN <<k, v>> ELSE d[i]]
    ELSE Append(d, <<k, v>>)

DictHas(d, k) == \E i \in 1..Len(d) : d[i][1] = k

DictGet(d, k, default) ==
    IF DictHas(d, k) THEN d[CHOOSE i \in 1..Len(d) : d[i][1] = k][2]
    ELSE default

DictKeys(d) == {d[i][1] : i \in 1..Len(d)}

\* One attribute or item assignment of parse_line.
W(fld, k, v) == [f |-> fld, k |-> k, v |-> v]

ApplyWrite(s, w) ==
    CASE w.f = "app_status" ->
           [s EXCEPT !.app_status = DictSet(@, w.k, w.v)]
      [] w.f = "seen" -> [s EXCEPT !.seen = DictSet(@, w.k, w.v)]
      [] w.f = "active_app" -> [s EXCEPT !.active_app = w.v]
      [] w.f = "active_status" -> [s EXCEPT !.active_status = w.v]
      [] w.f = "speed" -> [s EXCEPT !.speed = w.v]
      [] w.f = "speed_wall_ts" -> [s EXCEPT !.speed_wall_ts = w.v]
      [] w.f = "speed_log_ts" -> [s EXCEPT !.speed_log_ts = w.v]
      [] w.f = "speed_src" -> [s EXCEPT !.speed_src = w.v]

RECURSIVE ApplyWrites(_, _)
ApplyWrites(s, ws) ==
    IF ws = << >> THEN s ELSE ApplyWrites(ApplyWrite(s, Head(ws)), Tail(ws))

\* ------------------------------------------------------------ parse_line

\* The assignments parse_line makes for `line` on state s at host time t,
\* in the order the source makes them; one operator for each branch.

\* upd_changed_re (lines 149-163).
WritesChanged(line, s, t) ==
    LET a == line.appid
        ss == nice_status(line.raw)
    IN  <<W("app_status", a, ss), W("seen", a, t)>>
        \o (IF HasActiveKeyword(line.raw)
            THEN <<W("active_app", a, a), W("active_status", a, ss)>>
            ELSE << >>)
        \o (IF IsNone(line.raw)
            THEN <<W("app_status", a, "Idle")>>
            ELSE << >>)

\* upd_started_re (lines 165-172).
WritesStarted(line, s, t) ==
    LET a == line.appid
    IN  <<W("active_app", a, a), W("active_status", a, "Downloading"),
          W("app_status", a, "Downloading"), W("seen", a, t)>>

\* A canceled branch after which no subject is active.
WritesCanceled_Deactivates(line, s, t) ==
    LET a == line.appid
    IN  <<W("app_status", a, "Paused"), W("seen", a, t)>>
        \o (IF s.active_app = a
            THEN <<W("active_app", a, None), W("active_status", a, "")>>
            ELSE << >>)

\* A canceled branch that undoes itself when the subject is paused already.
WritesCanceled_Toggle(line, s, t) ==
    LET a == line.appid
        ss == IF DictGet(s.app_status, a, "") = "Paused"
              THEN "Idle" ELSE "Paused"
    IN  <<W("app_status", a, ss), W("seen", a, t)>>
        \o (IF s.active_app = a
            THEN <<W("active_status", a, ss)>>
            ELSE << >>)

\* upd_canceled_re (lines 174-181).
WritesCanceled(line, s, t) ==
    LET a == line.appid
    IN  <<W("app_status", a, "Paused"), W("seen", a, t)>>
        \o (IF s.active_app = a
            THEN <<W("active_status", a, "Paused")>>
            ELSE << >>)

\* A finished branch that leaves the subject active.
WritesFinished_KeepsActive(line, s, t) ==
    LET a == line.appid
    IN  <<W("app_status", a, "Done"), W("seen", a, t)>>
        \o (IF s.active_app = a
            THEN <<W("speed", a, << >>), W("speed_wall_ts", a, 0)>>
            ELSE << >>)

\* A finished branch that forgets to discard the sample.
WritesFinished_KeepsSample(line, s, t) ==
    LET a == line.appid
    IN  <<W("app_status", a, "Done"), W("seen", a, t)>>
        \o (IF s.active_app = a
            THEN <<W("active_app", a, None), W("active_status", a, "")>>
            ELSE << >>)

\* finished_re (lines 183-193).
WritesFinished(line, s, t) ==
    LET a == line.appid
    IN  <<W("app_status", a, "Done"), W("seen", a, t)>>
        \o (IF s.active_app = a
            THEN <<W("active_app", a, None), W("active_status", a, ""),
                   W("speed", a, << >>), W("speed_wall_ts", a, 0)>>
            ELSE << >>)

\* A state-changed branch that forgets the last-seen time.
WritesState_NoSeen(line, s, t) ==
    LET a == line.appid
    IN  IF Contains(line.raw, "suspended")
        THEN <<W("app_status", a, "Paused")>>
             \o (IF s.active_app = a
                 THEN <<W("active_status", a, "Paused")>>
                 ELSE << >>)
        ELSE << >>

\* state_changed_re (lines 195-204).
WritesState(line, s, t) ==
    LET a == line.appid
    IN  IF Contains(line.raw, "suspended")
        THEN <<W("app_status", a, "Paused"), W("seen", a, t)>>
             \o (IF s.active_app = a
                 THEN <<W("active_status", a, "Paused")>>
                 ELSE << >>)
        ELSE << >>

\* A metric branch that keeps a sample it already has.
WritesMetric_KeepsFirst(line, s, t) ==
    IF s.speed # << >>
    THEN << >>
    ELSE <<W("speed", None, <<float(line.num)>>),
           W("speed_wall_ts", None, t),
           W("speed_log_ts", None, line.ts),
           W("speed_src", None, Classify(line))>>

\* rate_re, inc_re, stats_re (lines 206-219) and _set_speed (lines 141-145).
WritesMetric(line, s, t) ==
    <<W("speed", None, <<float(line.num)>>),
      W("speed_wall_ts", None, t),
      W("speed_log_ts", None, line.ts),
      W("speed_src", None, Classify(line))>>

ParseWrites(line, s, t) ==
    LET kind == Classify(line)
    IN  CASE kind = "upd_changed" -> WritesChanged(line, s, t)
          [] kind = "upd_started" -> WritesStarted(line, s, t)
          [] kind = "upd_canceled" -> WritesCanceled(line, s, t)
          [] kind = "finished" -> WritesFinished(line, s, t)
          [] kind = "state_changed" -> WritesState(line, s, t)
          [] kind \in MetricRules -> WritesMetric(line, s, t)
          [] OTHER -> << >>

\* parse_line(line, st) run to its return, at host time t.
parse_line(line, s, t) == ApplyWrites(s, ParseWrites(line, s, t))

\* ----------------------------------------------------------- pick_active

\* A scan that keeps the subject seen earliest.
RECURSIVE PickScan_Oldest(_, _, _)
PickScan_Oldest(s, i, best) ==
    IF i > Len(s.seen) THEN best
    ELSE LET appid == s.seen[i][1]
             ts == s.seen[i][2]
             ss == DictGet(s.app_status, appid, "")
             take == /\ ss # ""
                     /\ ss \notin {"Idle", "Done"}
                     /\ (best = << >> \/ ts < best[1])
         IN  PickScan_Oldest(s, i + 1, IF take THEN <<ts, appid>> ELSE best)

\* The loop of lines 132-137 over st.seen.items(), from its i-th item on;
\* best is << >> for None and <<ts, appid>> otherwise.
RECURSIVE PickScan(_, _, _)
PickScan(s, i, best) ==
    IF i > Len(s.seen) THEN best
    ELSE LET appid == s.seen[i][1]
             ts == s.seen[i][2]
             ss == DictGet(s.app_status, appid, "")
             take == /\ ss # ""
                     /\ ss \notin {"Idle", "Done"}
                     /\ (best = << >> \/ ts > best[1])
         IN  PickScan(s, i + 1, IF take THEN <<ts, appid>> ELSE best)

pick_active(s) ==
    IF s.active_app # None THEN s.active_app
    ELSE LET best == PickScan(s, 1, << >>)
         IN  IF best = << >> THEN None ELSE best[2]

\* ------------------------------------------------------------ the report

NoOut == [kind |-> "none", name |-> "", ss |-> "", speed |-> << >>]

\* manifest_name(libs, appid): the manifests found are the environment's;
\* has is the set of subjects whose manifest yields a name.
manifest_name(has, appid) == IF appid \in has THEN <<"name", appid>> ELSE None

\* The status shown for appid (line 294).
ShownStatus(s, appid) ==
    LET ss == DictGet(s.app_status, appid, s.active_status)
    IN  IF ss = "" THEN "?" ELSE ss

\* A freshness test that takes a sample of age stale_sec for stale.
speed_ok_Strict(s, t) == s.speed # << >> /\ (t - s.speed_wall_ts) < stale_sec

\* speed_ok (line 284).
speed_ok(s, t) == s.speed # << >> /\ (t - s.speed_wall_ts) <= stale_sec

\* The status line lines 282-303 print for state s at host time t.
Render(s, t, has) ==
    LET appid == pick_active(s)
        name == manifest_name(has, appid)
        ss == ShownStatus(s, appid)
    IN  IF appid = None \/ name = None
        THEN [kind |-> "nothing", name |-> "", ss |-> "", speed |-> << >>]
        ELSE IF ss = "Paused"
        THEN [kind |-> "paused", name |-> appid, ss |-> ss, speed |-> << >>]
        ELSE IF ~speed_ok(s, t)
        THEN [kind |-> "nospeed", name |-> appid, ss |-> ss, speed |-> << >>]
        ELSE [kind |-> "speed", name |-> appid, ss |-> ss, speed |-> s.speed]

\* ------------------------------------------- the loop of watch_log, whole

\* The lines fed to the tracker: every kind of event for every subject, the
\* three metric sources, a line two patterns match and one none matches.
Lines ==
    {LChanged("10", <<"Running", "Downloading">>),
     LChanged("10", <<"Suspended">>), LChanged("10", <<"None">>),
     LStarted("10"), LCanceled("10"), LFinished("10"),
     LState("10", <<"Suspended">>),
     LStarted("20"), LFinished("20"), LBoth("20", <<"Staging">>),
     LRate("10:00:01", "12.5"), LInc("10:00:02", "7"),
     LStats("10:00:03", "12.50"), LOther}

IsMetric(line) == Classify(line) \in MetricRules

\* The seconds the host clock moves by between two steps.
Deltas == {150, 151}

StartTime == 1000

\* The watcher thread and the log file at rest.
TailAtRest ==
    /\ file = << >>
    /\ nrot = 0
    /\ telling = TRUE
    /\ f = "none"
    /\ fpos = 0
    /\ fd = 0
    /\ snap = 0
    /\ buf = << >>
    /\ pos = 0
    /\ wpc = "open"
    /\ ret = "init"
    /\ pending = << >>
    /\ after = ""
    /\ committed = InitState
    /\ stop_ev = FALSE
    /\ mpc = "run"
    /\ shrunk = FALSE
    /\ staleRead = FALSE
    /\ size = 0
    /\ torn = 0
    /\ diag = 0

\* No second tracker and no history kept of the lines.
TrackAtRest ==
    /\ hist = << >>
    /\ held = None
    /\ libs = {}
    /\ twin = [s |-> InitState, n |-> 0]

Init ==
    /\ st = InitState
    /\ now = StartTime
    /\ last_out = 0
    /\ out = NoOut
    /\ last = NoLine
    /\ prev = InitState
    /\ lastMetric = NoLine
    /\ nev = 0
    /\ replay = << >>
    /\ TailAtRest
    /\ TrackAtRest

\* Lines 277-303 on state s: nothing is printed before every_sec has passed
\* since the last status line. The clock is read at line 277, t, and again
\* at line 284 for speed_ok; d is what it moved by in between.
Report(s, has, t, d) ==
    IF t - last_out < every_sec
    THEN /\ d = 0
         /\ now' = t
         /\ out' = NoOut
         /\ UNCHANGED last_out
    ELSE /\ last_out' = t
         /\ now' = t + d
         /\ out' = Render(s, t + d, has)

\* What the clock may move by between two statements of one turn.
Drifts == {0} \cup Deltas

\* reopen_tail (lines 242-243), called at line 248 and, when the file has
\* shrunk, at line 265: a line of the window is applied, and no report runs
\* between the lines of the window.
ReplayLine(line) ==
    /\ nev < MaxEvents
    /\ prev' = st
    /\ st' = parse_line(line, st, now)
    /\ last' = line
    /\ lastMetric' = IF IsMetric(line) THEN line ELSE lastMetric
    /\ nev' = nev + 1
    /\ out' = NoOut
    /\ UNCHANGED <<now, last_out, replay, tailvars>>

\* One turn of the loop of lines 256-303 in which readline returned `line`:
\* the line is applied (line 275), then the report runs; the clock moves by
\* d0 between parse_line's reading of it and line 277.
ReadLine(line, has, d0, d) ==
    /\ nev < MaxEvents
    /\ now + d0 + d <= MaxNow
    /\ prev' = st
    /\ st' = parse_line(line, st, now)
    /\ last' = line
    /\ lastMetric' = IF IsMetric(line) THEN line ELSE lastMetric
    /\ nev' = nev + 1
    /\ Report(st', has, now + d0, d)
    /\ UNCHANGED <<replay, tailvars>>

\* One turn in which readline returned nothing (line 272).
NoNewLine(has, d) ==
    /\ now + d <= MaxNow
    /\ Report(st, has, now, d)
    /\ UNCHANGED <<st, last, prev, lastMetric, nev, replay, tailvars,
                   trackvars>>

\* The host clock moves on.
Tick(d) ==
    /\ now + d <= MaxNow
    /\ now' = now + d
    /\ out' = NoOut
    /\ UNCHANGED <<st, last_out, last, prev, lastMetric, nev, replay,
                   tailvars, trackvars>>

Next ==
    \/ \E line \in Lines : ReplayLine(line) /\ UNCHANGED trackvars
    \/ \E line \in Lines, has \in SUBSET Apps, d0 \in Drifts,
          d \in Drifts :
          ReadLine(line, has, d0, d) /\ UNCHANGED trackvars
    \/ \E has \in SUBSET Apps, d \in Drifts : NoNewLine(has, d)
    \/ \E d \in Deltas : Tick(d)

Spec == Init /\ [][Next]_vars

\* ------------------------------------- the tracker, with its history kept

\* The lines fed to the tracker whose history is kept: the events of both
\* subjects, "none" in two spellings, a state change that is no suspension
\* and the three metric sources.
TrackLines ==
    {LChanged("10", <<"Running", "Downloading">>),
     LChanged("10", <<"NONE">>), LChanged("20", <<"none">>),
     LStarted("10"), LStarted("20"), LCanceled("10"), LCanceled("20"),
     LFinished("10"), LFinished("20"),
     LState("20", <<"Suspended">>), LState("10", <<"Running">>),
     LRate("10:00:01", "12.5"), LInc("10:00:02", "7"),
     LStats("10:00:03", "12.50")}

\* The status-by-subject entry of appid, "" when it has none.
StatusOf(s, appid) == DictGet(s.app_status, appid, "")

\* The subject that was canceled while active and whose status, like the
\* active subject, no line has changed since; s2 is the state after `line`.
HeldAfter(line, s, s2) ==
    IF Classify(line) = "upd_canceled" /\ s.active_app = line.appid
    THEN line.appid
    ELSE IF held # None /\ (s2.active_app # s.active_app
                            \/ StatusOf(s2, held) # StatusOf(s, held))
    THEN None
    ELSE held

\* The manifests found (libs, line 222): a report resolves the name of the
\* one subject pick_active returned (line 291), so each subject's name
\* resolves under one choice of libs and does not under the other.
TrackLibs == {{a} : a \in Apps}

TrackInit ==
    /\ st = InitState
    /\ now = StartTime
    /\ last_out = 0
    /\ out = NoOut
    /\ last = NoLine
    /\ prev = InitState
    /\ lastMetric = NoLine
    /\ nev = 0
    /\ replay = << >>
    /\ TailAtRest
    /\ hist = << >>
    /\ held = None
    /\ libs \in TrackLibs
    /\ twin = [s |-> InitState, n |-> 0]

\* One turn of the loop in which readline returned `line` (lines 270-303),
\* the manifests being those of libs.
Feed(line, d0, d) ==
    /\ ReadLine(line, libs, d0, d)
    /\ hist' = Append(hist, line)
    /\ held' = HeldAfter(line, st, st')
    /\ UNCHANGED <<libs, twin>>

\* A line of the window replayed at the start (lines 242-243).
FeedReplay(line) ==
    /\ ReplayLine(line)
    /\ hist' = Append(hist, line)
    /\ held' = HeldAfter(line, st, st')
    /\ UNCHANGED <<libs, twin>>

TrackNext ==
    \/ \E line \in TrackLines : FeedReplay(line)
    \/ \E line \in TrackLines, d0 \in Drifts, d \in Drifts :
          Feed(line, d0, d)
    \/ \E d \in Drifts : NoNewLine(libs, d)
    \/ \E d \in Deltas : Tick(d)

SpecTrack == TrackInit /\ [][TrackNext]_vars

\* ------------------------------------------- two trackers, two histories

\* The lines fed to the two trackers.
TwinLines == {LCanceled("10"), LCanceled("20"), LFinished("20")}

\* parse_line(line, twin) (line 275): the second tracker is handed `line`.
TwinLine(line) ==
    /\ twin.n < MaxEvents
    /\ twin' = [s |-> parse_line(line, twin.s, now), n |-> twin.n + 1]
    /\ out' = NoOut
    /\ UNCHANGED <<st, now, last_out, last, prev, lastMetric, nev, replay,
                   tailvars, hist, held, libs>>

TwinNext ==
    \/ \E line \in TwinLines : ReplayLine(line) /\ UNCHANGED trackvars
    \/ \E line \in TwinLines, d0 \in Drifts, d \in Drifts :
          ReadLine(line, libs, d0, d) /\ UNCHANGED trackvars
    \/ \E d \in Drifts : NoNewLine(libs, d)
    \/ \E line \in TwinLines : TwinLine(line)
    \/ \E d \in Deltas : Tick(d)

SpecTwin == Init /\ [][TwinNext]_vars

\* ------------------------------------------- replaying a sequence of lines

\* The lines of the replayed sequences.
ReplayLines ==
    {LStarted("10"), LCanceled("10"), LFinished("10"),
     LChanged("10", <<"Suspended">>), LStarted("20"),
     LRate("10:00:01", "12.5"), LOther}

SeqsUpTo(S, n) == UNION {[1..k -> S] : k \in 0..n}

\* A dict as the mapping it is, whatever the order of insertion.
AsMap(d) == [k \in DictKeys(d) |-> DictGet(d, k, "")]

\* The Tracker State with the host-clock stamps left out.
TrackerView(s) ==
    [active_app |-> s.active_app, active_status |-> s.active_status,
     app_status |-> AsMap(s.app_status), speed |-> s.speed]

ReplayInit ==
    /\ TailAtRest
    /\ TrackAtRest
    /\ st = InitState
    /\ now = StartTime
    /\ last_out = 0
    /\ out = NoOut
    /\ last = NoLine
    /\ prev = InitState
    /\ lastMetric = NoLine
    /\ nev = 0
    /\ replay \in {[L |-> L, i |-> 0, s |-> InitState, once |-> InitState] :
                     L \in SeqsUpTo(ReplayLines, MaxLen)}

\* The next line of L, L a second time is applied (lines 242-243 of
\* reopen_tail, line 275 of the loop); once is the state after the first pass.
ReplayStep ==
    /\ replay.i < 2 * Len(replay.L)
    /\ LET line == replay.L[(replay.i % Len(replay.L)) + 1]
           s2 == parse_line(line, replay.s, StartTime + replay.i)
       IN  replay' = [replay EXCEPT
                        !.i = @ + 1,
                        !.s = s2,
                        !.once = IF replay.i + 1 = Len(replay.L) THEN s2 ELSE @]
    /\ UNCHANGED <<st, now, last_out, out, last, prev, lastMetric, nev,
                   tailvars, trackvars>>

ReplayNext == ReplayStep

SpecReplay == ReplayInit /\ [][ReplayNext]_vars

\* ----------------------------------------- the log file and reads from it

\* A line of the file: what it holds and how many bytes it takes.
FLine(line, len) == [line |-> line, len |-> len]

\* The lines the log's writer appends: an event, a metric line whose number
\* float() rejects, and a long line no pattern matches.
TailLines ==
    {FLine(LStarted("10"), 50), FLine(LRate("10:00:01", "1.2.3"), 60),
     FLine(LOther, 150000)}

\* What the file holds after it was rotated or truncated.
Rotations == {<< >>, <<FLine(LStarted("10"), 50)>>}

\* The offset just after the i-th line.
RECURSIVE EndOf(_, _)
EndOf(fl, i) == IF i = 0 THEN 0 ELSE EndOf(fl, i - 1) + fl[i].len

\* os.path.getsize(log_path) (lines 235, 258).
getsize(fl) == EndOf(fl, Len(fl))

\* The line that holds the byte at offset o < getsize(fl).
LineAt(fl, o) ==
    CHOOSE i \in 1..Len(fl) : EndOf(fl, i - 1) <= o /\ o < EndOf(fl, i)

\* What is left of a line read from inside it: the head is gone, so the
\* patterns anchored at the line's start (the metric ones) cannot match; the
\* others match or not, by where the cut falls.
Fragments(line) ==
    {Line({}, None, << >>, "", "cut")}
    \cup (IF line.m \ MetricRules # {}
          THEN {[line EXCEPT !.m = @ \ MetricRules]}
          ELSE {})

\* What a read returns of a line whose end is not written yet: the cut falls
\* after all a pattern needs, or it does not.
Heads(line) == {Line({}, None, << >>, "", "cut"), line}

\* The bytes one read of the file brings into the buffer of the file object
\* open() returns (line 233, default buffering).
CHUNK_BYTES == 8192

Min(x, y) == IF x < y THEN x ELSE y

Max(x, y) == IF x > y THEN x ELSE y

\* A run of bytes the file object holds: bytes a..b-1 of a line, and whether
\* the line's end came with them.
Piece(l, a, b, nl) == [line |-> l, a |-> a, b |-> b, nl |-> nl]

\* The bytes held in a sequence of pieces.
RECURSIVE BufBytes(_)
BufBytes(ps) ==
    IF ps = << >> THEN 0
    ELSE (Head(ps).b - Head(ps).a) + BufBytes(Tail(ps))

\* One read of the file at offset o < getsize(fl): the bytes from o to
\* o + CHUNK_BYTES or to the end of the file, the writer still owing t bytes
\* of the last line.
RawRead(fl, o, t) ==
    LET e == Min(o + CHUNK_BYTES, getsize(fl))
        lo == LineAt(fl, o)
        hi == LineAt(fl, e - 1)
    IN  [k \in 1..(hi - lo + 1) |->
           LET i == lo + k - 1
               s == EndOf(fl, i - 1)
           IN  Piece(fl[i].line, Max(o, s) - s, Min(e, EndOf(fl, i)) - s,
                     e >= EndOf(fl, i) /\ ~(i = Len(fl) /\ t > 0))]

\* The buffer after the bytes r were read behind the bytes bf: bytes of one
\* line that follow on each other are one run.
Glue(bf, r) ==
    IF /\ bf # << >>
       /\ r # << >>
       /\ ~bf[Len(bf)].nl
       /\ bf[Len(bf)].line = Head(r).line
       /\ bf[Len(bf)].b = Head(r).a
    THEN SubSeq(bf, 1, Len(bf) - 1)
         \o <<Piece(Head(r).line, bf[Len(bf)].a, Head(r).b, Head(r).nl)>>
         \o Tail(r)
    ELSE bf \o r

\* The pieces of bf up to the first line end; none when bf holds no line end.
FirstLine(bf) ==
    IF \E k \in 1..Len(bf) : bf[k].nl
    THEN SubSeq(bf, 1, CHOOSE k \in 1..Len(bf) :
                         bf[k].nl /\ \A j \in 1..(k - 1) : ~bf[j].nl)
    ELSE << >>

\* What parse_line may find in the string made of the pieces ps: a whole
\* line is itself; of a line whose head is there the patterns match or not;
\* a piece from inside a line is a fragment.
Texts(ps) ==
    IF Len(ps) = 1 /\ ps[1].a = 0 /\ ps[1].nl
    THEN {ps[1].line}
    ELSE UNION {IF k = 1 /\ ps[k].a = 0
                THEN Heads(ps[k].line)
                ELSE Fragments(ps[k].line) : k \in 1..Len(ps)}

\* A tell() one byte too far.
tell_Overshoot(o, ps) == o - BufBytes(ps) + 1

\* f.tell() (lines 245, 274) of a file object that reads next at o and
\* holds the pieces ps: the offset of the first byte not yet returned.
tell(o, ps) == o - BufBytes(ps)

\* One step of f.readline() and of next(f) (lines 240, 242, 270) on a file
\* object that holds bf and reads next at o: a line is taken from the
\* buffer when it holds one; otherwise the file is read once, and at its
\* end what the buffer holds is the line. res tells whether a line is
\* returned, nothing is (the end), or the read goes on; fd and snap are the
\* offset after the read and the bytes it brought.
NextLine(fl, bf, o, t) ==
    LET ln == FirstLine(bf)
        rest == SubSeq(bf, Len(ln) + 1, Len(bf))
        e == Min(o + CHUNK_BYTES, getsize(fl))
    IN  IF ln # << >>
        THEN [res |-> "line", texts |-> Texts(ln), buf |-> rest,
              fd |-> o, snap |-> -1, fpos |-> tell(o, rest)]
        ELSE IF o >= getsize(fl)
        THEN [res |-> IF bf = << >> THEN "eof" ELSE "line",
              texts |-> IF bf = << >> THEN {} ELSE Texts(bf),
              buf |-> << >>, fd |-> o, snap |-> 0, fpos |-> tell(o, << >>)]
        ELSE [res |-> "more", texts |-> {},
              buf |-> Glue(bf, RawRead(fl, o, t)),
              fd |-> e, snap |-> e - o, fpos |-> tell(o, bf)]

\* f's snapshot after a step r of NextLine: a read takes one while f's
\* telling is on, and a line taken from the buffer leaves it.
Snapshot(r) == IF r.snap < 0 \/ ~telling THEN snap ELSE r.snap

\* f.tell() after a read raised inside f.readline(): f has dropped the bytes
\* of the line read so far, and counts back from where it reads next by the
\* bytes of its last read.
tell_Failed == fd - snap

\* The step of NextLine reads the file, and so may raise OSError.
ReadsFile(bf) == FirstLine(bf) = << >>

\* -------------------------------------------------- the watcher thread

\* The process lives until main returns; the watcher is a daemon thread.
Alive == mpc # "exited"

\* Except clauses that both go back to the loop.
OnOSError_Retry == "loop"

\* The except clauses for OSError around reopen_tail (lines 249-251, 266-268).
OnOSError == IF ret = "init" THEN "failed" ELSE "loop"

\* A reporter of its own, which may run while parse_line is assigning.
ReportPcs_OwnThread == {"report", "apply"}

\* The pcs at which lines 277-303 run: the loop's own turn, after the line
\* read in it was applied whole.
ReportPcs == {"report"}

\* time.time() in an assignment of parse_line that is still to be made
\* (lines 143, 155, 171, 178, 187, 201): the clock is read when it is made.
Clock == -1

\* The write w as it is made at host time t.
AtTime(w, t) ==
    IF w.f \in {"seen", "speed_wall_ts"} /\ w.v = Clock
    THEN [w EXCEPT !.v = t]
    ELSE w

\* parse_line(line, st) is entered (lines 243, 275) and goes on at `next`
\* when it returns; a ValueError of float() ends the thread.
Handle(line, next) ==
    IF ParseRaises(line)
    THEN /\ wpc' = "dead"
         /\ last' = line
         /\ UNCHANGED <<pending, after, committed>>
    ELSE LET ws == ParseWrites(line, st, Clock)
         IN  /\ pending' = ws
             /\ after' = next
             /\ committed' = parse_line(line, committed, Clock)
             /\ last' = line
             /\ wpc' = IF ws = << >> THEN next ELSE "apply"

\* f when the thread has gone on to wpc': watch_log's frame holds the only
\* reference to the file object, which is closed when the frame goes
\* (line 251, or an exception that leaves watch_log).
Release ==
    f' = IF wpc' \in {"dead", "failed"} /\ f = "open" THEN "closed" ELSE f

\* reopen_tail, lines 228-233: close f, open the file.
Open(ok) ==
    /\ Alive
    /\ wpc = "open"
    /\ IF ok
       THEN /\ f' = "open"
            /\ fpos' = 0
            /\ fd' = 0
            /\ snap' = 0
            /\ buf' = << >>
            /\ telling' = TRUE
            /\ shrunk' = FALSE
            /\ wpc' = "seek"
       ELSE /\ f' = IF f = "none" THEN "none" ELSE "closed"
            /\ wpc' = OnOSError
            /\ UNCHANGED <<fpos, buf, fd, snap, telling, shrunk>>
    /\ diag' = IF ~ok /\ OnOSError = "failed" THEN diag + 1 ELSE diag
    /\ out' = NoOut
    /\ UNCHANGED <<st, now, last_out, last, prev, lastMetric, nev, replay,
                   trackvars, file, nrot, pos, ret, pending, after,
                   committed, stop_ev, mpc, staleRead, size, torn>>

\* reopen_tail, lines 235-237: getsize, and f.seek(start).
Seek(ok) ==
    /\ Alive
    /\ wpc = "seek"
    /\ IF ok
       THEN /\ size' = getsize(file)
            /\ fpos' = Max(0, size' - WINDOW_BYTES)
            /\ fd' = fpos'
            /\ snap' = 0
            /\ buf' = << >>
            /\ wpc' = IF fpos' > 0 THEN "skip" ELSE "replay"
       ELSE /\ wpc' = OnOSError
            /\ UNCHANGED <<fpos, buf, fd, snap, size>>
    /\ Release
    /\ diag' = IF ~ok /\ OnOSError = "failed" THEN diag + 1 ELSE diag
    /\ out' = NoOut
    /\ UNCHANGED <<st, now, last_out, last, prev, lastMetric, nev, replay,
                   trackvars, file, nrot, telling, pos, ret, pending, after,
                   committed, stop_ev, mpc, shrunk, staleRead, torn>>

\* reopen_tail, lines 239-240: f.readline() drops what is left of the line
\* the seek fell in. When a read raises, the bytes read so far of that line
\* are gone from f, and f reads on behind them.
Skip(ok) ==
    /\ Alive
    /\ wpc = "skip"
    /\ ~ok => ReadsFile(buf)
    /\ LET r == NextLine(file, buf, fd, torn)
       IN  IF ~ok
           THEN /\ wpc' = OnOSError
                /\ buf' = << >>
                /\ fpos' = tell_Failed
                /\ UNCHANGED <<fd, snap>>
           ELSE /\ fpos' = r.fpos
                /\ fd' = r.fd
                /\ snap' = Snapshot(r)
                /\ buf' = r.buf
                /\ wpc' = IF r.res = "more" THEN "skip" ELSE "replay"
    /\ Release
    /\ diag' = IF ~ok /\ OnOSError = "failed" THEN diag + 1 ELSE diag
    /\ out' = NoOut
    /\ UNCHANGED <<st, now, last_out, last, prev, lastMetric, nev, replay,
                   trackvars, file, nrot, telling, pos, ret, pending, after,
                   committed, stop_ev, mpc, shrunk, staleRead, size, torn>>

\* reopen_tail, lines 242-245: the next line of `for ln in f`, or its end.
\* next(f) turns f's telling off and turns it on again only when it finds
\* the end of the file, where f's snapshot is cleared: after a read that
\* raised, f.tell() raises, and the bytes read so far of the line are gone
\* from f.
Replay(ok) ==
    /\ Alive
    /\ wpc = "replay"
    /\ ~ok => ReadsFile(buf)
    /\ LET r == NextLine(file, buf, fd, torn)
       IN  IF ~ok
           THEN /\ wpc' = OnOSError
                /\ telling' = FALSE
                /\ buf' = << >>
                /\ UNCHANGED <<fpos, fd, snap, pos, last, pending, after,
                               committed>>
           ELSE /\ fpos' = r.fpos
                /\ fd' = r.fd
                /\ snap' = IF r.res = "eof" THEN 0 ELSE snap
                /\ buf' = r.buf
                /\ telling' = (r.res = "eof")
                /\ CASE r.res = "more" ->
                          UNCHANGED <<wpc, pos, last, pending, after,
                                      committed>>
                     [] r.res = "eof" ->
                          /\ pos' = r.fpos
                          /\ wpc' = IF ret = "init" THEN "loop" ELSE "readline"
                          /\ UNCHANGED <<last, pending, after, committed>>
                     [] r.res = "line" ->
                          /\ \E line \in r.texts : Handle(line, "replay")
                          /\ UNCHANGED pos
    /\ Release
    /\ diag' = IF ~ok /\ OnOSError = "failed" THEN diag + 1 ELSE diag
    /\ out' = NoOut
    /\ UNCHANGED <<st, now, last_out, prev, lastMetric, nev, replay,
                   trackvars, file, nrot, ret, stop_ev, mpc, shrunk,
                   staleRead, size, torn>>

\* The next assignment of parse_line, made with the clock as it is now.
Apply ==
    /\ Alive
    /\ wpc = "apply"
    /\ LET w == AtTime(Head(pending), now)
       IN  /\ st' = ApplyWrite(st, w)
           /\ committed' = IF w = Head(pending) THEN committed
                           ELSE ApplyWrite(committed, w)
    /\ pending' = Tail(pending)
    /\ wpc' = IF Tail(pending) = << >> THEN after ELSE "apply"
    /\ out' = NoOut
    /\ UNCHANGED <<now, last_out, last, prev, lastMetric, nev, replay,
                   trackvars, file, nrot, telling, f, fpos, buf, fd, snap,
                   pos, ret,
                   after, stop_ev, mpc, shrunk, staleRead, size, torn, diag>>

\* Line 256, and lines 305-309 when stop_ev is set.
LoopTest ==
    /\ Alive
    /\ wpc = "loop"
    /\ IF stop_ev
       THEN /\ f' = IF f = "open" THEN "closed" ELSE f
            /\ wpc' = "done"
       ELSE /\ wpc' = "getsize"
            /\ UNCHANGED f
    /\ out' = NoOut
    /\ UNCHANGED <<st, now, last_out, last, prev, lastMetric, nev, replay,
                   trackvars, file, nrot, telling, fpos, buf, fd, snap, pos,
                   ret,
                   pending, after, committed, stop_ev, mpc, shrunk,
                   staleRead, size, torn, diag>>

\* Lines 257-268 up to the call of reopen_tail.
GetSize(ok) ==
    /\ Alive
    /\ wpc = "getsize"
    /\ IF ~ok
       THEN /\ wpc' = "loop"
            /\ UNCHANGED <<ret, size>>
       ELSE /\ size' = getsize(file)
            /\ IF size' < pos
               THEN /\ wpc' = "open"
                    /\ ret' = "loop"
               ELSE /\ wpc' = "readline"
                    /\ UNCHANGED ret
    /\ out' = NoOut
    /\ UNCHANGED <<st, now, last_out, last, prev, lastMetric, nev, replay,
                   trackvars, file, nrot, telling, f, fpos, buf, fd, snap, pos,
                   pending, after, committed, stop_ev, mpc, shrunk,
                   staleRead, torn, diag>>

\* Lines 270-275: f.readline(), which raises on a closed f (ValueError) and
\* when the read fails (OSError); then pos = f.tell(), which raises OSError
\* when f's telling is off, and parse_line. Nothing catches these.
ReadLoop(ok) ==
    /\ Alive
    /\ wpc = "readline"
    /\ ~ok => (f = "open" /\ ReadsFile(buf))
    /\ LET r == NextLine(file, buf, fd, torn)
       IN  IF f # "open" \/ ~ok
           THEN /\ wpc' = "dead"
                /\ UNCHANGED <<fpos, fd, snap, buf, pos, last, pending,
                               after, committed, staleRead>>
           ELSE /\ staleRead' = (staleRead \/ shrunk)
                /\ fpos' = r.fpos
                /\ fd' = r.fd
                /\ snap' = Snapshot(r)
                /\ buf' = r.buf
                /\ CASE r.res = "more" ->
                          UNCHANGED <<wpc, pos, last, pending, after,
                                      committed>>
                     [] r.res = "eof" ->
                          /\ wpc' = "report"
                          /\ UNCHANGED <<pos, last, pending, after,
                                         committed>>
                     [] r.res = "line" /\ ~telling ->
                          /\ wpc' = "dead"
                          /\ UNCHANGED <<pos, last, pending, after,
                                         committed>>
                     [] r.res = "line" /\ telling ->
                          /\ pos' = r.fpos
                          /\ \E line \in r.texts : Handle(line, "report")
    /\ Release
    /\ out' = NoOut
    /\ UNCHANGED <<st, now, last_out, prev, lastMetric, nev, replay,
                   trackvars, file, nrot, telling, ret, stop_ev, mpc, shrunk,
                   size, torn, diag>>

\* Lines 277-303; the clock moves by d between line 277 and line 284.
ReportLoop(has, d) ==
    /\ Alive
    /\ wpc \in ReportPcs
    /\ now + d <= StartTime + TailTicks * every_sec
    /\ Report(st, has, now, d)
    /\ wpc' = IF wpc = "report" THEN "loop" ELSE wpc
    /\ UNCHANGED <<st, last, prev, lastMetric, nev, replay, trackvars, file,
                   nrot, telling, f, fpos, buf, fd, snap, pos, ret, pending,
                   after,
                   committed, stop_ev, mpc, shrunk, staleRead, size, torn,
                   diag>>

\* ------------------------------------------------------- the log's writer

\* The writer and the clock are followed for as long as the process lives.
AppendLine(l) ==
    /\ Alive
    /\ torn = 0
    /\ Len(file) < MaxFile
    /\ file' = Append(file, l)
    /\ out' = NoOut
    /\ UNCHANGED <<st, now, last_out, last, prev, lastMetric, nev, replay,
                   trackvars, f, fpos, pos, wpc, ret, pending, after,
                   committed, stop_ev, mpc, shrunk, staleRead, size, torn,
                   diag, buf, fd, snap, nrot, telling>>

\* The writer appends the first half of a line, and the rest later.
AppendHead(l) ==
    /\ Alive
    /\ torn = 0
    /\ Len(file) < MaxFile
    /\ file' = Append(file, FLine(l.line, l.len \div 2))
    /\ torn' = l.len - (l.len \div 2)
    /\ out' = NoOut
    /\ UNCHANGED <<st, now, last_out, last, prev, lastMetric, nev, replay,
                   trackvars, f, fpos, pos, wpc, ret, pending, after,
                   committed, stop_ev, mpc, shrunk, staleRead, size, diag,
                   buf, fd, snap, nrot, telling>>

AppendRest ==
    /\ Alive
    /\ torn > 0
    /\ file' = [file EXCEPT ![Len(file)].len = @ + torn]
    /\ torn' = 0
    /\ out' = NoOut
    /\ UNCHANGED <<st, now, last_out, last, prev, lastMetric, nev, replay,
                   trackvars, f, fpos, pos, wpc, ret, pending, after,
                   committed, stop_ev, mpc, shrunk, staleRead, size, diag,
                   buf, fd, snap, nrot, telling>>

\* The file is truncated and written anew; it is smaller than before.
Rotate(nf) ==
    /\ Alive
    /\ getsize(nf) < getsize(file)
    /\ nrot < MaxRotations
    /\ nrot' = nrot + 1
    /\ file' = nf
    /\ shrunk' = (shrunk \/ (f = "open" /\ getsize(nf) < pos
                              /\ getsize(nf) < fpos))
    /\ out' = NoOut
    /\ UNCHANGED <<st, now, last_out, last, prev, lastMetric, nev, replay,
                   trackvars, f, fpos, pos, wpc, ret, pending, after,
                   committed, stop_ev, mpc, staleRead, size, torn, diag, buf,
                   fd, snap,
                   telling>>

\* ------------------------------------------------------------------- main

\* Line 349, after the loop of lines 340-347 broke.
Stop ==
    /\ mpc = "run"
    /\ stop_ev' = TRUE
    /\ mpc' = "join"
    /\ out' = NoOut
    /\ UNCHANGED <<st, now, last_out, last, prev, lastMetric, nev, replay,
                   trackvars, file, nrot, telling, f, fpos, pos, wpc, ret,
                   pending, after, committed, shrunk, staleRead, size, torn,
                   diag, buf, fd, snap>>

WatcherEnded == wpc \in {"done", "dead", "failed"}

\* Lines 350-351: th.join(timeout=1.0) returns because the watcher ended, or
\* because the second has passed; main returns and the process exits.
Join(timedOut) ==
    /\ mpc = "join"
    /\ timedOut = ~WatcherEnded
    /\ mpc' = "exited"
    /\ out' = NoOut
    /\ UNCHANGED <<st, now, last_out, last, prev, lastMetric, nev, replay,
                   trackvars, file, nrot, telling, f, fpos, pos, wpc, ret,
                   pending, after, committed, stop_ev, shrunk, staleRead,
                   size, torn, diag, buf, fd, snap>>

\* The host clock moves on by the report interval.
TailTick ==
    /\ Alive
    /\ now + every_sec <= StartTime + TailTicks * every_sec
    /\ now' = now + every_sec
    /\ out' = NoOut
    /\ UNCHANGED <<st, last_out, last, prev, lastMetric, nev, replay,
                   tailvars, trackvars>>

\* What the clock moves by between line 277 and line 284 where it is
\* followed, and where it is not.
TailDrifts == {0, every_sec}

NoDrift == {0}

\* The steps of the watcher thread, the clock moving by one of ds inside a
\* report.
Watcher(ds) ==
    \/ \E ok \in BOOLEAN : Open(ok)
    \/ \E ok \in BOOLEAN : Seek(ok)
    \/ \E ok \in BOOLEAN : Skip(ok)
    \/ \E ok \in BOOLEAN : Replay(ok)
    \/ Apply
    \/ LoopTest
    \/ \E ok \in BOOLEAN : GetSize(ok)
    \/ \E ok \in BOOLEAN : ReadLoop(ok)
    \/ \E has \in {{}, Apps}, d \in ds : ReportLoop(has, d)

\* The watcher thread and the log's writer.
TailNext ==
    \/ Watcher(NoDrift)
    \/ \E l \in TailLines : AppendLine(l)
    \/ \E nf \in Rotations : Rotate(nf)

\* The watcher thread, the main thread that stops it, a log that grows and
\* the clock.
StopNext ==
    \/ Watcher(TailDrifts)
    \/ \E l \in TailLines : AppendLine(l)
    \/ Stop
    \/ \E t \in BOOLEAN : Join(t)
    \/ TailTick

SpecStop == Init /\ [][StopNext]_vars

\* The watcher thread and a writer that appends lines whole or in two parts
\* to a file that never shrinks.
DeliverNext ==
    \/ Watcher(NoDrift)
    \/ \E l \in TailLines : AppendLine(l)
    \/ \E l \in TailLines : AppendHead(l)
    \/ AppendRest

SpecDeliver == Init /\ [][DeliverNext]_vars

SpecTail == Init /\ [][TailNext]_vars

\* ------------------------------------------------------------------ claims

\* C1: applying a sequence L of lines twice in a row from the initial State
\* leaves the same Tracker State (active subject, cached status, status by
\* subject, metric sample) as applying it once.
C1_ReplayIdempotent ==
    (replay.i = 2 * Len(replay.L)) =>
        TrackerView(replay.s) = TrackerView(replay.once)

\* C2: after a finished line for subject S, S's status is Done, and if S was
\* the active subject before, no subject is active and the sample is absent.
C2_FinishedClears ==
    (nev > 0 /\ Classify(last) = "finished") =>
        /\ DictGet(st.app_status, last.appid, "") = "Done"
        /\ (prev.active_app = last.appid =>
                st.active_app = None /\ st.speed = << >>)

C2_Witness ==
    /\ nev > 0
    /\ Classify(last) = "finished"
    /\ prev.active_app = last.appid
    /\ prev.speed # << >>
    /\ st.active_app = None
    /\ st.speed = << >>

\* C3: whenever a subject is active, the cached active status equals that
\* subject's entry in status-by-subject.
C3_Lockstep ==
    st.active_app # None =>
        st.active_status = DictGet(st.app_status, st.active_app, "?")

\* C4: a report that names a subject shows the cached active status if
\* there is one, else the subject's status-by-subject entry, else "?".
C4_CachedStatusFirst ==
    out.kind \in {"paused", "nospeed", "speed"} =>
        out.ss = (IF st.active_status # "" THEN st.active_status
                  ELSE IF DictHas(st.app_status, out.name)
                       THEN DictGet(st.app_status, out.name, "")
                       ELSE "?")

\* C5 as stated: on every report, a sample older than stale_sec is not shown
\* as a number and a present sample of age at most stale_sec is.
C5_StalenessEveryReport ==
    out # NoOut =>
        /\ (now - st.speed_wall_ts > stale_sec => out.kind # "speed")
        /\ (st.speed # << >> /\ now - st.speed_wall_ts <= stale_sec
                => out.kind = "speed")

\* C5 amended: no report shows a sample older than stale_sec as a number, and
\* every report that shows a speed field (a named subject whose status is
\* not Paused) shows the number exactly when the sample is present and of
\* age at most stale_sec.
C5_Staleness ==
    out # NoOut =>
        /\ (now - st.speed_wall_ts > stale_sec => out.kind # "speed")
        /\ (out.kind \in {"nospeed", "speed"} =>
              (out.kind = "speed" <=>
                 (st.speed # << >> /\ now - st.speed_wall_ts <= stale_sec)))
        /\ (out.kind = "speed" => out.speed = st.speed)

C5_Witness ==
    /\ out.kind = "nospeed"
    /\ st.speed # << >>
    /\ now - st.speed_wall_ts > stale_sec

\* C6 as stated: the sample always equals that of the metric line applied last.
C6_LastWriterAlways ==
    lastMetric # NoLine =>
        /\ st.speed = <<float(lastMetric.num)>>
        /\ st.speed_log_ts = lastMetric.ts
        /\ st.speed_src = Classify(lastMetric)

\* C6 amended: right after a metric line the sample is that line's; later it
\* is either absent (a finished line of the active subject discarded it) or
\* still that of the metric line applied last, whatever sources came before.
C6_LastWriterWins ==
    lastMetric # NoLine =>
        /\ (st.speed # << >> => st.speed = <<float(lastMetric.num)>>)
        /\ st.speed_log_ts = lastMetric.ts
        /\ st.speed_src = Classify(lastMetric)
        /\ (IsMetric(last) => st.speed = <<float(last.num)>>)

C6_Witness ==
    /\ IsMetric(last)
    /\ prev.speed # << >>
    /\ prev.speed # st.speed
    /\ prev.speed_src # st.speed_src
    /\ st.speed = <<float(last.num)>>

\* C7: once the file has fallen below pos, the watcher reopens it and never
\* reads from f at the old offset, however the writer's steps fall between
\* the size check of line 258 and the read of line 270.
C7_NoReadAfterShrink == ~staleRead

\* C8: once the log has been opened, no error ends the watcher's loop: a
\* failing size check, reopen or read, or a line parse_line cannot apply,
\* leaves it running.
C8_NoErrorEndsLoop == wpc # "dead"

\* C9: when the process exits after the shutdown signal, the watcher has
\* left its loop and closed the log file, whenever main's bounded join
\* returns.
C9_ClosedBeforeExit == (mpc = "exited") => (f # "open" /\ WatcherEnded)

\* C10: a report reads the State only between lines: no assignment of
\* parse_line is outstanding and the State is that of the lines handed over
\* so far, each applied whole.
C10_ReportAtomic == (out # NoOut) => (pending = << >> /\ st = committed)

C10_Witness ==
    /\ out.kind = "nospeed"
    /\ last = LStarted("10")
    /\ st.active_app = "10"
    /\ st = committed

\* C11: pick_active returns the active subject when one is set; otherwise a
\* subject whose status is neither Idle nor Done and whose last-seen time is
\* the greatest among such subjects; and None exactly when no subject is
\* active and there is no such subject.
C11_PickActive ==
    LET r == pick_active(st)
        C == {a \in DictKeys(st.app_status) :
                StatusOf(st, a) \notin {"Idle", "Done"}}
    IN  /\ st.active_app # None => r = st.active_app
        /\ st.active_app = None =>
              /\ (r = None <=> C = {})
              /\ (r # None =>
                    /\ r \in C
                    /\ \A c \in C :
                          DictGet(st.seen, c, 0) <= DictGet(st.seen, r, 0))

C11_Witness ==
    /\ st.active_app = None
    /\ StatusOf(st, "10") = "Paused"
    /\ StatusOf(st, "20") = "Paused"
    /\ DictGet(st.seen, "10", 0) > DictGet(st.seen, "20", 0)
    /\ st.seen[1][1] = "10"
    /\ pick_active(st) = "10"

\* C12: when no subject is active, the subject pick_active selects depends
\* only on what status-by-subject and last-seen hold: two histories that end
\* in the same two mappings select the same subject, whatever the order in
\* which the subjects were first seen.
C12_TieBreakByContents ==
    (/\ st.active_app = None
     /\ twin.s.active_app = None
     /\ AsMap(st.app_status) = AsMap(twin.s.app_status)
     /\ AsMap(st.seen) = AsMap(twin.s.seen))
        => pick_active(st) = pick_active(twin.s)

\* C13: for a subject S whose name resolves, after an update-started line of
\* S and then a metric line of value v and no other line, a report made
\* while the sample is at most stale_sec old shows S, Downloading and the
\* speed v; after a finished line of S next, a report shows that nothing is
\* active.
C13_EndToEnd ==
    \A S \in Apps :
        (/\ out # NoOut
         /\ Len(hist) >= 2
         /\ hist[1] = LStarted(S)
         /\ IsMetric(hist[2]))
        => /\ (Len(hist) = 2 /\ S \in libs
                   /\ now - st.speed_wall_ts <= stale_sec)
                => out = [kind |-> "speed", name |-> S,
                          ss |-> "Downloading",
                          speed |-> <<float(hist[2].num)>>]
           /\ (Len(hist) = 3 /\ hist[3] = LFinished(S))
                => out.kind = "nothing"

C13_Witness ==
    /\ hist = <<LStarted("10"), LRate("10:00:01", "12.5")>>
    /\ "10" \in libs
    /\ now - st.speed_wall_ts = stale_sec
    /\ out = [kind |-> "speed", name |-> "10", ss |-> "Downloading",
              speed |-> <<12500>>]

\* C14: when the first open of the log fails, the watcher prints its message
\* once and ends: it has applied no line and printed no status line, and
\* it does not try again.
C14_FatalOpen ==
    (f = "none" /\ wpc # "open") =>
        /\ wpc = "failed"
        /\ diag = 1
        /\ st = InitState
        /\ committed = InitState
        /\ pending = << >>
        /\ last = NoLine
        /\ last_out = 0
        /\ out = NoOut

C14_Witness ==
    /\ f = "none"
    /\ wpc = "failed"
    /\ diag = 1
    /\ Len(file) = MaxFile
    /\ st = InitState
    /\ last_out = 0

\* C15: an update-changed line whose status text is "none", in any case,
\* leaves the subject's status-by-subject entry Idle and does not make the
\* subject active: the active subject and its cached status stay as they
\* were, whatever the State before.
C15_NoneIsIdle ==
    (nev > 0 /\ Classify(last) = "upd_changed" /\ IsNone(last.raw)) =>
        /\ StatusOf(st, last.appid) = "Idle"
        /\ st.active_app = prev.active_app
        /\ st.active_status = prev.active_status

C15_Witness ==
    /\ last = LChanged("20", <<"none">>)
    /\ StatusOf(prev, "20") = "Paused"
    /\ prev.active_app = "10"
    /\ StatusOf(st, "20") = "Idle"
    /\ st.active_app = "10"

\* C16: a line applied twice in immediate succession leaves the Tracker
\* State (active subject, cached status, status by subject, the sample with
\* its log time and source; host-clock stamps left out) as the first
\* application left it, for every kind of line and every State before.
C16_SingleEventIdempotent ==
    (Len(hist) >= 2 /\ hist[Len(hist)] = hist[Len(hist) - 1]) =>
        /\ TrackerView(st) = TrackerView(prev)
        /\ st.speed_log_ts = prev.speed_log_ts
        /\ st.speed_src = prev.speed_src

C16_Witness ==
    /\ hist = <<LStarted("10"), LFinished("10"), LFinished("10")>>
    /\ prev.active_app = None
    /\ TrackerView(st) = TrackerView(prev)
    /\ DictGet(st.seen, "10", 0) > DictGet(prev.seen, "10", 0)

\* C17 as stated: pos never exceeds the file size the watcher observed last
\* (lines 235, 258), also when the writer appends between the size check and
\* the read.
C17_PosWithinObserved == pos <= size

\* C17 amended: while the file only grows, pos is 0 or the offset f.tell()
\* returned after the last read, so it is where f is whenever the watcher
\* is in its loop, and it is at most the size the file has.
C17_Cursor ==
    /\ pos <= getsize(file)
    /\ pos = 0 \/ pos = fpos
    /\ wpc \in {"loop", "getsize", "readline", "report"} => pos = fpos

C17_Witness ==
    /\ wpc = "report"
    /\ pos > size
    /\ pos = getsize(file)
    /\ pos = fpos

\* C18: after an update-canceled line of the active subject S, and until a
\* line changes S's status or the active subject, S is the active subject
\* with cached status Paused, and every report, S's name resolving, shows S
\* and Paused and no speed field, a fresh sample or not.
C18_CancelKeepsPaused ==
    held # None =>
        /\ st.active_app = held
        /\ st.active_status = "Paused"
        /\ StatusOf(st, held) = "Paused"
        /\ (out # NoOut /\ held \in libs) =>
              out = [kind |-> "paused", name |-> held, ss |-> "Paused",
                     speed |-> << >>]

C18_Witness ==
    /\ held = "10"
    /\ hist[1] = LStarted("10")
    /\ hist[2] = LCanceled("10")
    /\ IsMetric(last)
    /\ st.speed # << >>
    /\ now - st.speed_wall_ts <= stale_sec
    /\ out.kind = "paused"

\* C19: while the file does not shrink, every line handed to parse_line is
\* one whole line of the file, the one that ends where f is: the reads
\* follow the file line by line, each line once and in file order, also
\* when the writer writes a line in two appends.
C19_WholeLineDelivered ==
    last # NoLine =>
        \E i \in 1..Len(file) :
            /\ EndOf(file, i) = fpos
            /\ file[i].line = last
            /\ ~(i = Len(file) /\ torn > 0)

\* C20: status-by-subject and last-seen-by-subject have the same subjects,
\* and no line takes a subject out of either: the subjects before the line
\* applied last are all there after it.
C20_MapsAligned ==
    /\ DictKeys(st.app_status) = DictKeys(st.seen)
    /\ DictKeys(prev.app_status) \subseteq DictKeys(st.app_status)
    /\ DictKeys(prev.seen) \subseteq DictKeys(st.seen)

C20_Witness ==
    /\ last = LFinished("10")
    /\ DictKeys(prev.seen) = {"10", "20"}
    /\ StatusOf(prev, "10") = "Downloading"
    /\ DictKeys(st.app_status) = {"10", "20"}
    /\ DictKeys(st.seen) = {"10", "20"}

====
